---- MODULE Spec2Model ----
(***************************************************************************)
(* Model of Datasources/Eneco/EnecoDataPrepare.py: the pipeline            *)
(* generateImportDataFiles (glob, extension check, read + concat,          *)
(* prepareData, then one generateImportDataFile per output definition)     *)
(* and the functions filterData and recalculateData it applies.            *)
(*                                                                         *)
(* Representation.                                                         *)
(*  - A cell is a record [nan, num, str]: nan is pandas' NaN/NaT, num the   *)
(*    number of a numeric cell, str the characters of a text cell.         *)
(*  - Numeric readings are counted in ten-thousandths (0.0001), so that    *)
(*    round(x, 3) is a real rounding: to a multiple of 10, ties to even.   *)
(*  - A text is a tuple of one-character strings.                          *)
(*  - A DataFrame is [columns, rows]; a row is [idx, cells], idx being the *)
(*    row's index label (pd.concat(ignore_index = True) numbers them from  *)
(*    0, and loc / sort_values / boolean indexing keep the labels).        *)
(*  - A datetime of the date column is a day number (the date format       *)
(*    '%d-%m-%Y' has day resolution); the Unix stamp written by            *)
(*    prepareData is counted in minutes, TLC's integers being 32 bits.     *)
(***************************************************************************)
EXTENDS Integers, Sequences, FiniteSets, TLC

VARIABLES
    pc,                \* position in generateImportDataFiles
    fileNames,         \* glob.glob(inputFileNames): the matched files, each with its content
    outputFiles,       \* the configured list of OutputFileDefinition
    parsed,            \* indices of fileNames that readInputFile has read
    dataFrame,         \* the variable dataFrame of generateImportDataFiles
    assembled,         \* history: the value prepareData returned (line 186)
    outIdx,            \* position of the loop of line 189 (1-based)
    dataFrameFiltered, \* the local dataFrameFiltered of generateImportDataFile
    sameObject,        \* TRUE iff dataFrameFiltered is the very object dataFrame
    written            \* the files to_csv has written: outputFileName -> rows

vars == <<pc, fileNames, outputFiles, parsed, dataFrame, assembled, outIdx,
          dataFrameFiltered, sameObject, written>>

-----------------------------------------------------------------------------
(* Bounds of the model *)

MaxFiles == 2
MaxRows == 3
MaxOutputs == 3
MaxFilters == 2

-----------------------------------------------------------------------------
(* Template setup, lines 23-56 *)

inputFileNameExtension == ".xlsx"
inputFileDateColumnName == "Datum"

-----------------------------------------------------------------------------
(* Cells *)

NaN == [nan |-> TRUE, num |-> 0, str |-> <<>>]
Num(n) == [nan |-> FALSE, num |-> n, str |-> <<>>]
Str(s) == [nan |-> FALSE, num |-> 0, str |-> s]

\* math.isnan
isnan(c) == c.nan

\* Series.astype(str) on a text column: NaN becomes the text 'nan'
astype_str(c) == IF c.nan THEN <<"n", "a", "n">> ELSE c.str

\* round3 cutting the fourth decimal off instead of rounding
round3Truncating(x) == 10 * (x \div 10)

\* round(x, 3) of a number counted in ten-thousandths: nearest multiple of
\* 10, a tie going to the even thousandth
round3(x) ==
    LET q == x \div 10
        r == x % 10
    IN  IF r < 5 THEN 10 * q
        ELSE IF r > 5 THEN 10 * (q + 1)
        ELSE IF q % 2 = 0 THEN 10 * q ELSE 10 * (q + 1)

-----------------------------------------------------------------------------
(* Dates *)

\* Day number of a civil date, 1970-01-01 being day 0 (what
\* datetime.strptime / pd.to_datetime compute for '%d-%m-%Y')
DaysFromCivil(y, m, d) ==
    LET yy  == IF m <= 2 THEN y - 1 ELSE y
        era == yy \div 400
        yoe == yy - era * 400
        mp  == (m + 9) % 12
        doy == (153 * mp + 2) \div 5 + d - 1
        doe == yoe * 365 + yoe \div 4 - yoe \div 100 + doy
    IN  era * 146097 + doe - 719468

\* pd.to_datetime(column, format = '%d-%m-%Y') of one raw date [d, m, y]
to_datetime(raw) == IF raw.nan THEN NaN ELSE Num(DaysFromCivil(raw.y, raw.m, raw.d))

\* (column.view('int64') / 1000000000).astype('int64'), counted in minutes
ToUnix(c) == Num(c.num * 1440)

-----------------------------------------------------------------------------
(* Regular expressions: a pattern is a tuple of characters in which a      *)
(* leading "^" and a trailing "$" anchor and "." matches any character.    *)

PatBody(pat) ==
    LET a == IF Len(pat) > 0 /\ pat[1] = "^" THEN 2 ELSE 1
        b == IF Len(pat) >= a /\ pat[Len(pat)] = "$" THEN Len(pat) - 1 ELSE Len(pat)
    IN  SubSeq(pat, a, b)

\* re.search(pat, s) is not None
re_search(pat, s) ==
    LET body   == PatBody(pat)
        anchS  == Len(pat) > 0 /\ pat[1] = "^"
        anchE  == Len(pat) > (IF anchS THEN 1 ELSE 0) /\ pat[Len(pat)] = "$"
        starts == IF anchS THEN {1} ELSE 1..(Len(s) + 1)
    IN  \E k \in starts :
            /\ k + Len(body) - 1 <= Len(s)
            /\ \A j \in 1..Len(body) : body[j] = "." \/ body[j] = s[k + j - 1]
            /\ anchE => k + Len(body) - 1 = Len(s)

-----------------------------------------------------------------------------
(* DataFrames *)

Frame(cols, rows) == [columns |-> cols, rows |-> rows]

EmptyFrame == Frame({}, <<>>)

\* str_contains comparing the whole text with the pattern instead of
\* searching it
str_containsWhole(row, column, value) == astype_str(row.cells[column]) = value

\* Series.str.contains(value, regex = True) of one row
str_contains(row, column, value) == re_search(value, astype_str(row.cells[column]))

\* filterLoop returning at once, without looking at the filter's column,
\* when no row is left
RECURSIVE filterLoopEmptyReturns(_, _, _)
filterLoopEmptyReturns(df, filters, same) ==
    IF filters = <<>> \/ (df.rows = <<>> /\ ~same)
    THEN [err |-> FALSE, df |-> df, same |-> same]
    ELSE LET dataFilter == Head(filters)
         IN  IF dataFilter.column \notin df.columns
             THEN [err |-> TRUE, df |-> df, same |-> same]
             ELSE LET keep(row) ==
                          LET series == re_search(dataFilter.value,
                                                  astype_str(row.cells[dataFilter.column]))
                          IN  IF ~dataFilter.equal THEN ~series ELSE series
                      sub == Frame(df.columns, SelectSeq(df.rows, keep))
                  IN  filterLoopEmptyReturns(sub, Tail(filters), FALSE)

\* filterData, lines 82-95. The result is [err, df, same]: err when
\* df[dataFilter.column] raises KeyError, same when the returned object is
\* the argument itself (no filter was applied: df = dataFrame, line 83).
\* Each df[series] is a new frame holding the selected rows.
RECURSIVE filterLoop(_, _, _)
filterLoop(df, filters, same) ==
    IF filters = <<>> THEN [err |-> FALSE, df |-> df, same |-> same]
    ELSE LET dataFilter == Head(filters)
         IN  IF dataFilter.column \notin df.columns
             THEN [err |-> TRUE, df |-> df, same |-> same]
             ELSE LET keep(row) ==
                          LET series == str_contains(row, dataFilter.column, dataFilter.value)
                          IN  IF ~dataFilter.equal THEN ~series ELSE series
                      sub == Frame(df.columns, SelectSeq(df.rows, keep))
                  IN  filterLoop(sub, Tail(filters), FALSE)

filterData(df, filters) == filterLoop(df, filters, TRUE)

\* df.at[index, column]
at(rows, index, column) ==
    LET r == CHOOSE r \in {rows[i] : i \in 1..Len(rows)} : r.idx = index
    IN  r.cells[column]

\* df.at[index, column] = value
set_at(rows, index, column, value) ==
    [i \in 1..Len(rows) |->
        IF rows[i].idx = index
        THEN [rows[i] EXCEPT !.cells = [@ EXCEPT ![column] = value]]
        ELSE rows[i]]

\* recalcLoop leaving a row without a valid value at 0.0 instead of adding
\* the previous row to it
RECURSIVE recalcLoopSkipsInvalid(_, _, _, _)
recalcLoopSkipsInvalid(rows, dataColumnName, k, previousRowIndex) ==
    IF k > Len(rows) THEN rows
    ELSE LET index == rows[k].idx
             cell == rows[k].cells[dataColumnName]
             r2 == IF cell.nan
                   THEN [rows EXCEPT ![k].cells[dataColumnName] = Num(0)]
                   ELSE IF previousRowIndex > -1
                   THEN [rows EXCEPT ![k].cells[dataColumnName] =
                            Num(round3(cell.num + rows[k - 1].cells[dataColumnName].num))]
                   ELSE rows
         IN  recalcLoopSkipsInvalid(r2, dataColumnName, k + 1, index)

\* recalculateData, lines 99-114: the loop over df.iterrows(), which visits
\* the rows in order; rows is the frame being written, k the next position
RECURSIVE recalcLoop(_, _, _, _)
recalcLoop(rows, dataColumnName, k, previousRowIndex) ==
    IF k > Len(rows) THEN rows
    ELSE LET index == rows[k].idx
             r1 == IF isnan(at(rows, index, dataColumnName))
                   THEN set_at(rows, index, dataColumnName, Num(0))
                   ELSE rows
             r2 == IF previousRowIndex > -1
                   THEN set_at(r1, index, dataColumnName,
                               Num(round3(at(r1, index, dataColumnName).num
                                          + at(r1, previousRowIndex, dataColumnName).num)))
                   ELSE r1
         IN  recalcLoop(r2, dataColumnName, k + 1, index)

recalculateData(df, dataColumnName) ==
    Frame(df.columns, recalcLoop(df.rows, dataColumnName, 1, -1))

\* DataFrame.filter([date column, value column]) followed by to_csv without
\* header and index: one <<date, value>> per row
ToCsv(df, dataColumnName) ==
    [i \in 1..Len(df.rows) |->
        <<df.rows[i].cells[inputFileDateColumnName], df.rows[i].cells[dataColumnName]>>]

-----------------------------------------------------------------------------
(* Reading and assembling *)

\* correctFileExtensions returning True from inside the loop: only the
\* first file name is looked at
correctFileExtensionsFirstOnly(files) ==
    files = <<>> \/ Head(files).ext = inputFileNameExtension

\* correctFileExtensions, lines 164-170 (os.path.splitext compares case-sensitively)
RECURSIVE correctFileExtensions(_)
correctFileExtensions(files) ==
    IF files = <<>> THEN TRUE
    ELSE IF Head(files).ext # inputFileNameExtension THEN FALSE
    ELSE correctFileExtensions(Tail(files))

\* readInputFile, lines 138-160: the file's table with its date column parsed
readInputFile(file) ==
    Frame(file.columns,
          [i \in 1..Len(file.rows) |->
              [c \in file.columns |->
                  IF c = inputFileDateColumnName
                  THEN to_datetime(file.rows[i][c])
                  ELSE file.rows[i][c]]])

\* pd.concat(frames, ignore_index = True, sort = True), line 183: the union
\* of the columns, a missing cell being NaN, the rows in order, labelled
\* 0, 1, 2, ...
RECURSIVE concatRows(_, _)
concatRows(frames, cols) ==
    IF frames = <<>> THEN <<>>
    ELSE LET f == Head(frames)
             widen(r) == [c \in cols |-> IF c \in f.columns THEN r[c] ELSE NaN]
         IN  [i \in 1..Len(f.rows) |-> widen(f.rows[i])] \o concatRows(Tail(frames), cols)

concat(frames) ==
    LET cols == UNION {frames[i].columns : i \in 1..Len(frames)}
        rs   == concatRows(frames, cols)
    IN  Frame(cols, [i \in 1..Len(rs) |-> [idx |-> i - 1, cells |-> rs[i]]])

\* The bounds of line 67: strptime('01-01-1970') and strptime('31-12-2099')
DateLow == DaysFromCivil(1970, 1, 1)
DateHigh == DaysFromCivil(2099, 12, 31)

\* InDateRange with < for the upper bound
InDateRangeExclusive(row) ==
    LET c == row.cells[inputFileDateColumnName]
    IN  ~c.nan /\ c.num >= DateLow /\ c.num < DateHigh

\* The row mask of line 67 (a comparison with NaT is False)
InDateRange(row) ==
    LET c == row.cells[inputFileDateColumnName]
    IN  ~c.nan /\ c.num >= DateLow /\ c.num <= DateHigh

InsertAt(s, k, e) == SubSeq(s, 1, k - 1) \o <<e>> \o SubSeq(s, k, Len(s))

DateOf(row) == row.cells[inputFileDateColumnName].num

\* sort_values(by = date column, ascending = True), line 70, with the
\* default kind = 'quicksort', which is not a stable sort: every
\* arrangement of the rows that is ascending by date is a possible outcome
RECURSIVE sort_values(_)
sort_values(rows) ==
    IF rows = <<>> THEN {<<>>}
    ELSE LET e == rows[Len(rows)]
             init == SubSeq(rows, 1, Len(rows) - 1)
         IN  UNION { { InsertAt(t, k, e) :
                         k \in { k \in 1..(Len(t) + 1) :
                                   /\ \A j \in 1..(k - 1) : DateOf(t[j]) <= DateOf(e)
                                   /\ \A j \in k..Len(t) : DateOf(e) <= DateOf(t[j]) } }
                     : t \in sort_values(init) }

\* prepareData, lines 63-78 (dataPreparation is empty): the set of frames
\* it can return
prepareData(df) ==
    LET kept == SelectSeq(df.rows, InDateRange)
        stamp(r) == [r EXCEPT !.cells = [@ EXCEPT ![inputFileDateColumnName] = ToUnix(@)]]
    IN  { Frame(df.columns, [i \in 1..Len(s) |-> stamp(s[i])]) : s \in sort_values(kept) }

-----------------------------------------------------------------------------
(* generateImportDataFiles, lines 174-196 *)

\* line 177, else branch of line 195: glob matched nothing
NoFilesFound ==
    /\ pc = "start"
    /\ Len(fileNames) = 0
    /\ pc' = "nofiles"
    /\ UNCHANGED <<fileNames, outputFiles, parsed, dataFrame, assembled, outIdx,
                   dataFrameFiltered, sameObject, written>>

\* line 181, else branch of line 193
WrongExtension ==
    /\ pc = "start"
    /\ Len(fileNames) > 0
    /\ ~correctFileExtensions(fileNames)
    /\ pc' = "badext"
    /\ UNCHANGED <<fileNames, outputFiles, parsed, dataFrame, assembled, outIdx,
                   dataFrameFiltered, sameObject, written>>

\* line 183
ReadInputFiles ==
    /\ pc = "start"
    /\ Len(fileNames) > 0
    /\ correctFileExtensions(fileNames)
    /\ dataFrame' = concat([i \in 1..Len(fileNames) |-> readInputFile(fileNames[i])])
    /\ parsed' = 1..Len(fileNames)
    /\ pc' = "read"
    /\ UNCHANGED <<fileNames, outputFiles, assembled, outIdx,
                   dataFrameFiltered, sameObject, written>>

\* line 186
PrepareData ==
    /\ pc = "read"
    /\ \E df \in prepareData(dataFrame) :
          /\ dataFrame' = df
          /\ assembled' = df
    /\ outIdx' = 1
    /\ pc' = "outputs"
    /\ UNCHANGED <<fileNames, outputFiles, parsed, dataFrameFiltered, sameObject, written>>

\* generateImportDataFile, line 120 false: lines 133-134
SkipOutput ==
    /\ pc = "outputs"
    /\ outIdx <= Len(outputFiles)
    /\ outputFiles[outIdx].valueColumnName \notin dataFrame.columns
    /\ outIdx' = outIdx + 1
    /\ UNCHANGED <<pc, fileNames, outputFiles, parsed, dataFrame, assembled,
                   dataFrameFiltered, sameObject, written>>

\* generateImportDataFile, lines 120-122, filterData raising KeyError: the
\* exception is caught nowhere and ends the run
FilterRaises ==
    /\ pc = "outputs"
    /\ outIdx <= Len(outputFiles)
    /\ outputFiles[outIdx].valueColumnName \in dataFrame.columns
    /\ filterData(dataFrame, outputFiles[outIdx].dataFilters).err
    /\ pc' = "error"
    /\ UNCHANGED <<fileNames, outputFiles, parsed, dataFrame, assembled, outIdx,
                   dataFrameFiltered, sameObject, written>>

\* generateImportDataFile, lines 120-122
FilterOutput ==
    /\ pc = "outputs"
    /\ outIdx <= Len(outputFiles)
    /\ outputFiles[outIdx].valueColumnName \in dataFrame.columns
    /\ LET res == filterData(dataFrame, outputFiles[outIdx].dataFilters)
       IN  /\ ~res.err
           /\ dataFrameFiltered' = res.df
           /\ sameObject' = res.same
    /\ pc' = "filtered"
    /\ UNCHANGED <<fileNames, outputFiles, parsed, dataFrame, assembled, outIdx, written>>

\* generateImportDataFile, lines 125-132. recalculateData writes into the
\* frame it is given: when that frame is the object dataFrame, dataFrame
\* changes with it.
WriteOutput ==
    /\ pc = "filtered"
    /\ LET outputFile == outputFiles[outIdx]
           result == IF outputFile.recalculate
                     THEN recalculateData(dataFrameFiltered, outputFile.valueColumnName)
                     ELSE dataFrameFiltered
       IN  /\ dataFrame' = IF outputFile.recalculate /\ sameObject THEN result ELSE dataFrame
           /\ written' = [n \in DOMAIN written \cup {outputFile.outputFileName} |->
                             IF n = outputFile.outputFileName
                             THEN ToCsv(result, outputFile.valueColumnName)
                             ELSE written[n]]
    /\ dataFrameFiltered' = EmptyFrame
    /\ sameObject' = FALSE
    /\ outIdx' = outIdx + 1
    /\ pc' = "outputs"
    /\ UNCHANGED <<fileNames, outputFiles, parsed, assembled>>

\* line 192
Done ==
    /\ pc = "outputs"
    /\ outIdx > Len(outputFiles)
    /\ pc' = "done"
    /\ UNCHANGED <<fileNames, outputFiles, parsed, dataFrame, assembled, outIdx,
                   dataFrameFiltered, sameObject, written>>

Next ==
    \/ NoFilesFound
    \/ WrongExtension
    \/ ReadInputFiles
    \/ PrepareData
    \/ SkipOutput
    \/ FilterRaises
    \/ FilterOutput
    \/ WriteOutput
    \/ Done

-----------------------------------------------------------------------------
(* Inputs: the files the pattern matches and the configured output        *)
(* definitions, drawn from five bounded families.                          *)

RawDate(d, m, y) == [nan |-> FALSE, d |-> d, m |-> m, y |-> y]

High == <<"H", "i", "g", "h">>
Low == <<"L", "o", "w">>

OutputFileDefinition(name, column, filters, recalc) ==
    [outputFileName |-> name, valueColumnName |-> column,
     dataFilters |-> filters, recalculate |-> recalc]

DataFilter(column, value, equal) == [column |-> column, value |-> value, equal |-> equal]

\* Output files are named by their position in the list
Named(defs) == [k \in 1..Len(defs) |-> [defs[k] EXCEPT !.outputFileName = k]]

SeqsUpTo(S, n) == UNION {[1..k -> S] : k \in 0..n}

RECURSIVE SumTo(_, _)
SumTo(f, n) == IF n = 0 THEN 0 ELSE f[n] + SumTo(f, n - 1)

Extensions == {".xlsx", ".csv"}

\* 31-12-1969, 01-01-1970, 31-12-2099, 01-01-2100: the two days around
\* each bound of line 67
RawDates == {RawDate(31, 12, 1969), RawDate(1, 1, 1970),
             RawDate(31, 12, 2099), RawDate(1, 1, 2100)}

Readings == {NaN, Num(-10), Num(4), Num(5), Num(16)}

TypeCells == {Str(High), Str(Low), NaN}

Patterns == {High, <<"^", ".", "o">>, <<"n", "$">>}

FilterPool ==
    {DataFilter("Type", p, e) : p \in Patterns, e \in BOOLEAN}
        \cup {DataFilter("Kind", High, TRUE)}

OneFile(cols, rows) == <<[ext |-> inputFileNameExtension, columns |-> cols, rows |-> rows]>>

\* Up to MaxFiles files of either extension holding up to MaxRows rows in
\* all, of any of RawDates; one output definition as in the template
InputsAssembly ==
    \E n \in 0..MaxFiles :
      \E exts \in [1..n -> Extensions], sizes \in [1..n -> 0..MaxRows] :
        /\ SumTo(sizes, n) <= MaxRows
        /\ \E dates \in [1..SumTo(sizes, n) -> RawDates] :
              fileNames =
                [i \in 1..n |->
                   [ext |-> exts[i], columns |-> {"Datum", "V"},
                    rows |-> [j \in 1..sizes[i] |->
                                 [Datum |-> dates[SumTo(sizes, i - 1) + j],
                                  V |-> Num(10000 * (SumTo(sizes, i - 1) + j))]]]]
        /\ outputFiles = <<OutputFileDefinition(1, "V", <<>>, FALSE)>>

\* One file of up to MaxRows rows with any Type cells; one output
\* definition with up to MaxFilters filters of FilterPool
InputsFilter ==
    \E n \in 0..MaxRows :
      \E types \in [1..n -> TypeCells], filters \in SeqsUpTo(FilterPool, MaxFilters) :
        /\ fileNames = OneFile({"Datum", "V", "Type"},
                               [i \in 1..n |-> [Datum |-> RawDate(i, 1, 2020),
                                                V |-> Num(10000 * i),
                                                Type |-> types[i]]])
        /\ outputFiles = <<OutputFileDefinition(1, "V", filters, FALSE)>>

RecalculateDefs ==
    {OutputFileDefinition(0, "V", <<>>, TRUE),
     OutputFileDefinition(0, "V", <<DataFilter("Type", High, TRUE)>>, TRUE)}

\* One file of up to MaxRows rows with any Readings, Type alternating
\* High, Low; up to MaxOutputs output definitions of RecalculateDefs
InputsRecalculate ==
    \E n \in 0..MaxRows :
      \E vals \in [1..n -> Readings], defs \in SeqsUpTo(RecalculateDefs, MaxOutputs) :
        /\ fileNames = OneFile({"Datum", "V", "Type"},
                               [i \in 1..n |-> [Datum |-> RawDate(i, 1, 2020),
                                                V |-> vals[i],
                                                Type |-> Str(IF i % 2 = 1 THEN High ELSE Low)]])
        /\ outputFiles = Named(defs)

ColumnSets == {{"Datum", "V", "Type"}, {"Datum", "V"}, {"Datum", "Type"}}

OutputDefs ==
    {OutputFileDefinition(0, c, f, FALSE) :
        c \in {"V", "W"},
        f \in {<<>>,
               <<DataFilter("Type", High, TRUE)>>,
               <<DataFilter("Kind", High, TRUE)>>,
               <<DataFilter("Type", <<"n", "$">>, TRUE), DataFilter("Kind", High, TRUE)>>}}

\* One file of two rows with any of ColumnSets; up to MaxOutputs output
\* definitions of OutputDefs (W and Kind are columns of no file)
InputsOutputs ==
    \E cols \in ColumnSets, defs \in SeqsUpTo(OutputDefs, MaxOutputs) :
        /\ fileNames = OneFile(cols,
                               [i \in 1..2 |->
                                  [c \in cols |->
                                     IF c = "Datum" THEN RawDate(i, 1, 2020)
                                     ELSE IF c = "V" THEN Num(10000 * i)
                                     ELSE Str(IF i % 2 = 1 THEN High ELSE Low)]])
        /\ outputFiles = Named(defs)

\* Scenarios A and B of the specification
ScenarioA ==
    /\ fileNames = OneFile({"Datum", "V"},
                           <<[Datum |-> RawDate(1, 1, 2020), V |-> Num(100000)],
                             [Datum |-> RawDate(2, 1, 2020), V |-> Num(50000)],
                             [Datum |-> RawDate(3, 1, 2020), V |-> NaN]>>)
    /\ outputFiles = <<OutputFileDefinition(1, "V", <<>>, TRUE)>>

ScenarioB ==
    /\ fileNames = OneFile({"Datum", "V", "Type"},
                           <<[Datum |-> RawDate(1, 1, 2020), V |-> Num(10000), Type |-> Str(High)],
                             [Datum |-> RawDate(2, 1, 2020), V |-> Num(20000), Type |-> Str(Low)],
                             [Datum |-> RawDate(3, 1, 2020), V |-> Num(30000), Type |-> Str(High)]>>)
    /\ outputFiles = <<OutputFileDefinition(1, "V", <<DataFilter("Type", High, TRUE)>>, FALSE)>>

Init ==
    /\ pc = "start"
    /\ parsed = {}
    /\ dataFrame = EmptyFrame
    /\ assembled = EmptyFrame
    /\ outIdx = 1
    /\ dataFrameFiltered = EmptyFrame
    /\ sameObject = FALSE
    /\ written = <<>>
    /\ \/ InputsAssembly
       \/ InputsFilter
       \/ InputsRecalculate
       \/ InputsOutputs
       \/ ScenarioA
       \/ ScenarioB

Spec == Init /\ [][Next]_vars

-----------------------------------------------------------------------------
(* Properties *)

\* The output definition being processed
Current == outputFiles[outIdx]

\* The run has an assembled dataset
Assembled == pc \in {"outputs", "filtered", "done", "error"}

\* A filter holds for a row: the text of the cell contains a match of the
\* pattern when equal, and contains none when not equal
Holds(f, row) == re_search(f.value, astype_str(row.cells[f.column])) <=> f.equal

HoldsAll(filters, row) == \A i \in 1..Len(filters) : Holds(filters[i], row)

\* The rows of df for which every filter holds, in their order
Retained(df, filters) ==
    LET keep(row) == HoldsAll(filters, row)
    IN  SelectSeq(df.rows, keep)

\* The reading of a row, a missing one counting as 0
Reading(row, column) == IF row.cells[column].nan THEN 0 ELSE row.cells[column].num

\* Nearest multiple of 10 of x, the even one of two equally near
NearestThousandth(x) ==
    CHOOSE m \in {10 * k : k \in ((x - 10) \div 10)..((x + 10) \div 10)} :
        /\ \A n \in {10 * k : k \in ((x - 10) \div 10)..((x + 10) \div 10)} :
              (IF m >= x THEN m - x ELSE x - m) <= (IF n >= x THEN n - x ELSE x - n)
        /\ (2 * (IF m >= x THEN m - x ELSE x - m) = 10) => (m \div 10) % 2 = 0

\* The running sum of the readings of rows 1..i, rounded after each addition
RECURSIVE RunningSum(_, _, _)
RunningSum(rows, column, i) ==
    IF i = 1 THEN Reading(rows[1], column)
    ELSE NearestThousandth(RunningSum(rows, column, i - 1) + Reading(rows[i], column))

\* The value column of a written file
Values(csv) == [i \in 1..Len(csv) |-> csv[i][2]]

NonDecreasing(vals) ==
    \A i \in 1..(Len(vals) - 1) : ~vals[i].nan /\ ~vals[i + 1].nan /\ vals[i].num <= vals[i + 1].num

FilterColumnsExist(def) ==
    \A i \in 1..Len(def.dataFilters) : def.dataFilters[i].column \in dataFrame.columns

-----------------------------------------------------------------------------
\* C1: projecting an output definition leaves the assembled dataset
\* unchanged: once assembled, dataFrame keeps, row for row and column for
\* column, the values prepareData returned.
C1_BaseUnchanged == Assembled => dataFrame = assembled

\* The files an output definition gives when it is processed alone on the
\* dataset base
ProcessedAlone(base, def) ==
    LET filtered == filterData(base, def.dataFilters).df
    IN  ToCsv(IF def.recalculate
              THEN recalculateData(filtered, def.valueColumnName)
              ELSE filtered,
              def.valueColumnName)

\* C4: the file written for an output definition depends only on the
\* assembled dataset and that definition: it is what the definition gives
\* when processed alone, whatever was processed before it.
C4_OutputsIndependent ==
    \A k \in DOMAIN written : written[k] = ProcessedAlone(assembled, outputFiles[k])

-----------------------------------------------------------------------------
\* The step that recalculates: generateImportDataFile, lines 125-132, of a
\* definition with recalculate = True
Recalculating == pc = "filtered" /\ Current.recalculate

\* The values written by that step
WrittenValues == Values(written'[Current.outputFileName])

FirstIsReading ==
    Len(dataFrameFiltered.rows) > 0 =>
        WrittenValues[1] = Num(Reading(dataFrameFiltered.rows[1], Current.valueColumnName))

NoNegativeDeltas ==
    LET rows == dataFrameFiltered.rows
        c == Current.valueColumnName
    IN  /\ \A i \in 2..Len(rows) : Reading(rows[i], c) >= 0
        /\ Len(rows) > 0 => Reading(rows[1], c) % 10 = 0

C5_FilterExact ==
    pc = "filtered" =>
        /\ dataFrameFiltered.columns = dataFrame.columns
        /\ dataFrameFiltered.rows = Retained(dataFrame, Current.dataFilters)
        /\ Current.dataFilters = <<>> => dataFrameFiltered.rows = dataFrame.rows

\* C5 witness: scenario B, Type High, Low, High filtered on High keeps the
\* first and the third row, in that order
C5_Witness ==
    /\ pc = "filtered"
    /\ Current.dataFilters = <<DataFilter("Type", High, TRUE)>>
    /\ [i \in 1..Len(dataFrame.rows) |-> dataFrame.rows[i].cells["Type"]]
          = <<Str(High), Str(Low), Str(High)>>
    /\ [i \in 1..Len(dataFrameFiltered.rows) |-> dataFrameFiltered.rows[i].idx] = <<0, 2>>

-----------------------------------------------------------------------------
\* The run is over
Ended == pc \in {"done", "error"}

ValueColumnExists(def) == def.valueColumnName \in assembled.columns

\* An output definition that can be produced: its value column and the
\* columns of its filters exist
Producible(def) ==
    /\ ValueColumnExists(def)
    /\ \A i \in 1..Len(def.dataFilters) : def.dataFilters[i].column \in assembled.columns

\* C6: when the value column of an output definition is absent, no file is
\* written for that definition and every other definition of the list,
\* before and after it, whose value column exists has its file at the end
\* of the run (stated here for the other definitions whose filters name
\* existing columns only, the ones a file can be written for).
C6_OthersStillProduced ==
    (Ended /\ \E k \in 1..Len(outputFiles) : ~ValueColumnExists(outputFiles[k])) =>
        \A k \in 1..Len(outputFiles) :
            /\ ~ValueColumnExists(outputFiles[k]) => k \notin DOMAIN written
            /\ Producible(outputFiles[k]) => k \in DOMAIN written

\* The concatenated input tables, as line 183 builds them
Concatenated == concat([i \in 1..Len(fileNames) |-> readInputFile(fileNames[i])])

\* The raw date of the row labelled idx, as the input file holds it
RawDateOf(idx) ==
    LET all == concatRows([i \in 1..Len(fileNames) |->
                              Frame(fileNames[i].columns, fileNames[i].rows)],
                          UNION {fileNames[i].columns : i \in 1..Len(fileNames)})
    IN  all[idx + 1][inputFileDateColumnName]

\* A raw date lies in [1970-01-01, 2099-12-31]
InBounds(raw) == ~raw.nan /\ raw.y >= 1970 /\ raw.y <= 2099

\* C7: the assembled dataset holds exactly the rows of the input tables
\* whose date lies in [1970-01-01, 2099-12-31], each once and with its
\* cells, and is sorted ascending by the date column.
C7_AssembledExact ==
    Assembled =>
        LET all == Concatenated.rows
            got == assembled.rows
        IN  /\ {got[i].idx : i \in 1..Len(got)}
                  = {all[i].idx : i \in {j \in 1..Len(all) : InBounds(RawDateOf(all[j].idx))}}
            /\ \A i, j \in 1..Len(got) : got[i].idx = got[j].idx => i = j
            /\ \A i \in 1..Len(got) : \E j \in 1..Len(all) :
                  /\ all[j].idx = got[i].idx
                  /\ \A c \in assembled.columns \ {inputFileDateColumnName} :
                        got[i].cells[c] = all[j].cells[c]
                  /\ got[i].cells[inputFileDateColumnName]
                        = ToUnix(all[j].cells[inputFileDateColumnName])
            /\ \A i \in 1..(Len(got) - 1) : DateOf(got[i]) <= DateOf(got[i + 1])

\* C7 witness: two files, a row of 31-12-2099 before a row of 01-01-1970,
\* a row out of bounds; the assembled dataset has the two in date order
C7_Witness ==
    /\ pc = "done"
    /\ Len(fileNames) = 2
    /\ Len(Concatenated.rows) = 3
    /\ Len(assembled.rows) = 2
    /\ RawDateOf(0) = RawDate(31, 12, 2099)
    /\ RawDateOf(1) = RawDate(31, 12, 1969)
    /\ RawDateOf(2) = RawDate(1, 1, 1970)
    /\ assembled.rows[1].idx = 2
    /\ assembled.rows[2].idx = 0

\* C8: assembly is a stable sort: two rows of equal date stand in the
\* assembled dataset in the order they have in the concatenated tables.
C8_StableSort ==
    Assembled =>
        \A i, j \in 1..Len(assembled.rows) :
            (i < j /\ DateOf(assembled.rows[i]) = DateOf(assembled.rows[j]))
                => assembled.rows[i].idx < assembled.rows[j].idx

\* C9: no input file is parsed and no output file is written unless the
\* pattern matched a file and every matched file has the configured
\* extension.
C9_NothingBeforeChecks ==
    /\ (parsed # {} \/ DOMAIN written # {} \/ Assembled \/ pc = "read") =>
          /\ Len(fileNames) > 0
          /\ \A i \in 1..Len(fileNames) : fileNames[i].ext = ".xlsx"
    /\ pc \in {"nofiles", "badext"} => parsed = {} /\ DOMAIN written = {}

\* C9 witness: a run that stopped at the extension check, the first file
\* having the configured extension and the second not, nothing parsed
C9_Witness ==
    /\ pc = "badext"
    /\ Len(fileNames) = 2
    /\ fileNames[1].ext = ".xlsx"
    /\ fileNames[2].ext = ".csv"
    /\ Len(fileNames[1].rows) > 0
    /\ parsed = {}

\* C10: when a filter of an output definition names a column absent from
\* the dataset, the filter step raises instead of returning rows, also
\* when earlier filters left no row, and no file is written for that
\* definition.
C10_AbsentFilterColumnRaises ==
    [][/\ (/\ pc = "outputs"
           /\ outIdx <= Len(outputFiles)
           /\ Current.valueColumnName \in dataFrame.columns
           /\ ~FilterColumnsExist(Current))
          => pc' = "error" /\ written' = written
       /\ \A k \in DOMAIN written' : FilterColumnsExist(outputFiles[k])]_vars

\* C10 witness: the run ended by the second filter of a definition, on an
\* absent column, after the first filter had left no row
C10_Witness ==
    /\ pc = "error"
    /\ Len(Current.dataFilters) = 2
    /\ Current.dataFilters[1].column \in dataFrame.columns
    /\ Current.dataFilters[2].column \notin dataFrame.columns
    /\ Len(dataFrame.rows) > 0
    /\ Retained(dataFrame, <<Current.dataFilters[1]>>) = <<>>
    /\ outIdx \notin DOMAIN written

====
